---- MODULE Spec2Model ----
(***************************************************************************)
(* A model of the graphql-transport-ws package: the wire codec of          *)
(* operationMessage (payload.go), the connection wrapper Conn (conn.go),   *)
(* and the client multiplexer / server handler that drive a Conn.          *)
(*                                                                         *)
(* Byte strings are sequences of one-character strings, so that what the   *)
(* encoder writes and what the JSON decoder reads is decided character by  *)
(* character.                                                              *)
(***************************************************************************)
EXTENDS Integers, Sequences, FiniteSets, TLC

VARIABLES
    \* the codec exercised on one message
    cPc,        \* "input", "encoded" or "decoded"
    cMsg,       \* the operationMessage handed to MarshalJSON
    cBytes,     \* the bytes MarshalJSON returned
    cOut,       \* what UnmarshalJSON made of them: [m, err]
    cReuse,     \* what UnmarshalJSON made of them in an envelope that was in use
    \* Dial
    dPc,        \* "input", "dialed" or "idle"
    dOpts,      \* the options Dial is called with
    dOut,       \* the websocket.DialOptions Dial hands to websocket.Dial
    \* concurrent calls of Conn.write
    wire,       \* the bytes the transport has taken, in the order it took them
    wr,         \* each writing task: its position in Conn.write, its envelope's
                \* bytes and the part of them the transport has not taken yet
    \* Conn
    done,       \* the channel c.done: "open" or "closed"
    wc,         \* the websocket: "open", "peerClosed" or "closed" (wc.Close was called)
    closer,     \* the position of each call of Conn.Close
    c2s,        \* frames written by the client and not yet read by the server
    s2c,        \* frames written by the server and not yet read by the client
    \* client multiplexer
    cstate,     \* "Unestablished", "Handshaking", "Ready" or "Faulted"
    fatal,      \* the stored fatal error
    waiters,    \* operation id -> result slot, for the registered waiters
    nextID,     \* the next operation id to allocate
    reader,     \* the reader task: "notStarted", "running" or "stopped"
    sub,        \* each Submit call: position, context, id, request, result
    \* server handler
    srv,        \* "AwaitInit", "Serving" or "Closed"
    active,     \* operation id -> request, for the resolutions under way
    \* the peer misbehaving, as the test servers do
    rogue,      \* a rogue frame was written
    \* history
    produced,   \* operation id -> how its last resolution ended
    hist,       \* each Submit call: "pending" at the fault, started "later", or "none"
    lateReads,  \* the reader took a frame after the connection was faulted
    sawOrphan,  \* the reader took a data envelope whose id had no registered waiter
    sawMalformed, \* the reader took one of the malformed frames
    sawLateComplete, \* the reader took a complete envelope whose id had no registered waiter
    startedClosed \* each Submit call: it started after a local Close had closed
                  \* the transport, on a connection with no fault other than an IOError

varsCodec == <<cPc, cMsg, cBytes, cOut, cReuse>>
varsDial == <<dPc, dOpts, dOut>>
varsWire == <<wire, wr>>
varsConn == <<done, wc, closer, c2s, s2c>>
varsClient == <<cstate, fatal, waiters, nextID, reader, sub>>
varsServer == <<srv, active, rogue>>
histReader == <<lateReads, sawOrphan, sawMalformed, sawLateComplete>>
varsHist == <<produced, hist, histReader, startedClosed>>
varsSys == <<varsConn, varsClient, varsServer, varsHist>>
vars == <<varsCodec, varsDial, varsWire, varsWire, varsSys>>

(***************************************************************************)
(* Bounds of the model.                                                    *)
(***************************************************************************)
\* longest user-supplied string (id, query, operationName, msg)
MaxStrLen == 1
\* concurrent callers of Submit, one call each
NumCallers == 2
\* calls of Conn.Close
NumClosers == 2
\* options in one call of Dial
MaxOpts == 2
\* frames a peer client keeps unread in each direction
MaxQueue == 2
MaxReplies == 3

(***************************************************************************)
(* Characters and byte strings.                                            *)
(***************************************************************************)
Q == "\""
BS == "\\"

\* the characters user-supplied strings are drawn from
Alphabet == {"a", Q, BS}

RECURSIVE StringsUpTo(_)
StringsUpTo(n) ==
    IF n = 0 THEN {<<>>}
    ELSE LET shorter == StringsUpTo(n - 1)
         IN shorter \cup {Append(s, c) : s \in {t \in shorter : Len(t) = n - 1}, c \in Alphabet}

Strs == StringsUpTo(MaxStrLen)

RECURSIVE Flatten(_)
Flatten(ss) == IF ss = <<>> THEN <<>> ELSE Head(ss) \o Flatten(Tail(ss))

Slice(b, from, to) == IF to < from THEN <<>> ELSE SubSeq(b, from, to)

\* p occurs in b starting at index i
OccursAt(p, b, i) == i >= 1 /\ i + Len(p) - 1 <= Len(b) /\ SubSeq(b, i, i + Len(p) - 1) = p

(***************************************************************************)
(* reqType constants.                                                      *)
(***************************************************************************)
gqlConnectionInit == <<"c", "o", "n", "n", "e", "c", "t", "i", "o", "n", "_", "i", "n", "i", "t">>
gqlStart == <<"s", "t", "a", "r", "t">>
gqlStop == <<"s", "t", "o", "p">>
gqlConnectionTerminate == <<"c", "o", "n", "n", "e", "c", "t", "i", "o", "n", "_", "t", "e", "r", "m", "i", "n", "a", "t", "e">>
gqlConnectionError == <<"c", "o", "n", "n", "e", "c", "t", "i", "o", "n", "_", "e", "r", "r", "o", "r">>
gqlConnectionAck == <<"c", "o", "n", "n", "e", "c", "t", "i", "o", "n", "_", "a", "c", "k">>
gqlData == <<"d", "a", "t", "a">>
gqlError == <<"e", "r", "r", "o", "r">>
gqlComplete == <<"c", "o", "m", "p", "l", "e", "t", "e">>
gqlConnectionKeepAlive == <<"c", "o", "n", "n", "e", "c", "t", "i", "o", "n", "_", "k", "e", "e", "p", "_", "a", "l", "i", "v", "e">>

KnownTypes ==
    {gqlConnectionInit, gqlStart, gqlStop, gqlConnectionTerminate,
     gqlConnectionError, gqlConnectionAck, gqlData, gqlError, gqlComplete, gqlConnectionKeepAlive}

\* the types that carry an operation id
OperationTypes == {gqlStart, gqlStop, gqlData, gqlError, gqlComplete}

(***************************************************************************)
(* Payload values.  A Go map or slice is nil or holds a value; an          *)
(* interface{} value is a string or a value json.Marshal cannot encode.    *)
(***************************************************************************)
NilMap == [isNil |-> TRUE, m |-> <<>>]
MapOf(f) == [isNil |-> FALSE, m |-> f]
NilSlice == [isNil |-> TRUE, s |-> <<>>]
SliceOf(s) == [isNil |-> FALSE, s |-> s]

StrValue(s) == [k |-> "str", s |-> s]
\* a value of a kind encoding/json has no encoding for (a channel, a func)
ChanValue == [k |-> "chan", s |-> <<>>]

Payload(kind, q, v, o, d, e, m) ==
    [kind |-> kind, Query |-> q, Variables |-> v, OperationName |-> o,
     Data |-> d, Errors |-> e, Msg |-> m]

NilPayload == Payload("nil", <<>>, NilMap, <<>>, <<>>, NilSlice, <<>>)
Request(q, v, o) == Payload("Request", q, v, o, <<>>, NilSlice, <<>>)
Response(d, e) == Payload("Response", <<>>, NilMap, <<>>, d, e, <<>>)
ServerError(m) == Payload("ServerError", <<>>, NilMap, <<>>, <<>>, NilSlice, m)
unknown == Payload("unknown", <<>>, NilMap, <<>>, <<>>, NilSlice, <<>>)

operationMessage(id, type, payload) == [ID |-> id, Type |-> type, Payload |-> payload]

(***************************************************************************)
(* encoding/json: Marshal of a map[string]interface{}.                     *)
(***************************************************************************)
ByteOf(c) ==
    CASE c = Q -> 34
      [] c = "&" -> 38
      [] c = "<" -> 60
      [] c = ">" -> 62
      [] c = BS -> 92
      [] c = "a" -> 97
      [] c = "b" -> 98
      [] OTHER -> 128

RECURSIVE KeyLess(_, _)
KeyLess(k1, k2) ==
    IF k1 = <<>> THEN k2 # <<>>
    ELSE IF k2 = <<>> THEN FALSE
    ELSE IF Head(k1) = Head(k2) THEN KeyLess(Tail(k1), Tail(k2))
    ELSE ByteOf(Head(k1)) < ByteOf(Head(k2))

RECURSIVE SortedKeys(_)
SortedKeys(S) ==
    IF S = {} THEN <<>>
    ELSE LET least == CHOOSE k \in S : \A j \in S \ {k} : KeyLess(k, j)
         IN <<least>> \o SortedKeys(S \ {least})

EscapeChar(c) ==
    CASE c = Q -> <<BS, Q>>
      [] c = BS -> <<BS, BS>>
      [] c = "<" -> <<BS, "u", "0", "0", "3", "c">>
      [] c = ">" -> <<BS, "u", "0", "0", "3", "e">>
      [] c = "&" -> <<BS, "u", "0", "0", "2", "6">>
      [] OTHER -> <<c>>

jsonEncodeString(s) == <<Q>> \o Flatten([i \in 1..Len(s) |-> EscapeChar(s[i])]) \o <<Q>>

jsonMarshalMap(f) ==
    LET keys == SortedKeys(DOMAIN f)
        member(i) == (IF i > 1 THEN <<",">> ELSE <<>>)
                     \o jsonEncodeString(keys[i]) \o <<":">> \o jsonEncodeString(f[keys[i]].s)
    IN IF \E k \in DOMAIN f : f[k].k # "str"
       THEN [out |-> <<>>, err |-> "unsupported type"]
       ELSE [out |-> <<"{">> \o Flatten([i \in 1..Len(keys) |-> member(i)]) \o <<"}">>,
             err |-> "nil"]

(***************************************************************************)
(* marshalPayload and operationMessage.MarshalJSON.                        *)
(***************************************************************************)
RECURSIVE JoinRaw(_)
JoinRaw(errs) ==
    IF errs = <<>> THEN <<>>
    ELSE IF Len(errs) = 1 THEN Head(errs)
    ELSE Head(errs) \o <<",">> \o JoinRaw(Tail(errs))

marshalRequest(v) ==
    LET head == <<"{", Q, "q", "u", "e", "r", "y", Q, ":", Q>> \o v.Query \o <<Q>>
        mvars == IF v.Variables.isNil THEN [out |-> <<>>, err |-> "nil"]
                ELSE jsonMarshalMap(v.Variables.m)
        withVars == IF v.Variables.isNil THEN head
                    ELSE head \o <<",", Q, "v", "a", "r", "i", "a", "b", "l", "e", "s", Q, ":">> \o mvars.out
        withName == IF v.OperationName # <<>>
                    THEN withVars \o <<",", Q, "o", "p", "e", "r", "a", "t", "i", "o", "n", "N", "a", "m", "e", Q, ":", Q>>
                                  \o v.OperationName \o <<Q>>
                    ELSE withVars
    IN IF mvars.err # "nil" THEN [out |-> withVars, err |-> mvars.err]
       ELSE [out |-> withName \o <<"}">>, err |-> "nil"]

marshalResponse(v) ==
    LET head == <<"{", Q, "d", "a", "t", "a", Q, ":">> \o v.Data
        withErrors == IF ~v.Errors.isNil
                      THEN head \o <<",", Q, "e", "r", "r", "o", "r", "s", Q, ":", "[">>
                                \o JoinRaw(v.Errors.s) \o <<"]">>
                      ELSE head
    IN [out |-> withErrors \o <<"}">>, err |-> "nil"]

marshalServerError(v) ==
    [out |-> <<"{", Q, "m", "s", "g", Q, ":", Q>> \o v.Msg \o <<Q, "}">>, err |-> "nil"]

marshalPayload(payload) ==
    CASE payload.kind = "Request" -> marshalRequest(payload)
      [] payload.kind = "Response" -> marshalResponse(payload)
      [] payload.kind = "ServerError" -> marshalServerError(payload)
      [] OTHER -> [out |-> <<>>, err |-> "nil"]

\* the "id" part of the object: written only for a non-empty ID
marshalID(m) ==
    IF m.ID # <<>> THEN <<Q, "i", "d", Q, ":", Q>> \o m.ID \o <<Q, ",">> ELSE <<>>

\* the "payload" part: written only for a non-nil Payload; the error of
\* marshalPayload is dropped
marshalPayloadPart(m) ==
    IF m.Payload.kind # "nil"
    THEN <<",", Q, "p", "a", "y", "l", "o", "a", "d", Q, ":">> \o marshalPayload(m.Payload).out
    ELSE <<>>

MarshalJSON(m) ==
    [out |-> <<"{">> \o marshalID(m)
             \o <<Q, "t", "y", "p", "e", Q, ":", Q>> \o m.Type \o <<Q>>
             \o marshalPayloadPart(m) \o <<"}">>,
     err |-> "nil"]

(***************************************************************************)
(* encoding/json: the scanner.  A value is parsed into a node that keeps   *)
(* the kind, the decoded string (for a string), the members or elements    *)
(* (for an object or array) and the place of its literal bytes.            *)
(***************************************************************************)
WhiteSpace == {" ", "\t", "\n", "\r"}
Digits == {"0", "1", "2", "3", "4", "5", "6", "7", "8", "9"}
HexDigits == Digits \cup {"a", "b", "c", "d", "e", "f", "A", "B", "C", "D", "E", "F"}

Node(k, s, items, from, to) == [k |-> k, s |-> s, items |-> items, from |-> from, to |-> to]
ParseFail == [ok |-> FALSE, end |-> 0, node |-> Node("none", <<>>, <<>>, 0, 0)]
ParseOk(end, node) == [ok |-> TRUE, end |-> end, node |-> node]

RECURSIVE SkipSpace(_, _)
SkipSpace(b, i) == IF i <= Len(b) /\ b[i] \in WhiteSpace THEN SkipSpace(b, i + 1) ELSE i

\* the character an escape \c stands for
Unescape(c) ==
    CASE c = "b" -> "<BS>"
      [] c = "f" -> "\f"
      [] c = "n" -> "\n"
      [] c = "r" -> "\r"
      [] c = "t" -> "\t"
      [] OTHER -> c

\* scans the inside of a string literal from index i; acc is what was decoded so far
RECURSIVE ScanString(_, _, _)
ScanString(b, i, acc) ==
    IF i > Len(b) THEN [ok |-> FALSE, end |-> 0, s |-> <<>>]
    ELSE IF b[i] = Q THEN [ok |-> TRUE, end |-> i + 1, s |-> acc]
    ELSE IF b[i] = BS
         THEN IF i + 1 > Len(b) THEN [ok |-> FALSE, end |-> 0, s |-> <<>>]
              ELSE IF b[i + 1] \in {Q, BS, "/", "b", "f", "n", "r", "t"}
                   THEN ScanString(b, i + 2, Append(acc, Unescape(b[i + 1])))
              ELSE IF b[i + 1] = "u" /\ i + 5 <= Len(b)
                      /\ \A j \in (i + 2)..(i + 5) : b[j] \in HexDigits
                   THEN ScanString(b, i + 6,
                            Append(acc, "U+" \o b[i + 2] \o b[i + 3] \o b[i + 4] \o b[i + 5]))
              ELSE [ok |-> FALSE, end |-> 0, s |-> <<>>]
    ELSE IF b[i] \in {"\t", "\n", "\r", "\f"} THEN [ok |-> FALSE, end |-> 0, s |-> <<>>]
    ELSE ScanString(b, i + 1, Append(acc, b[i]))

RECURSIVE ScanDigits(_, _)
ScanDigits(b, i) == IF i <= Len(b) /\ b[i] \in Digits THEN ScanDigits(b, i + 1) ELSE i

\* an integer literal: an optional minus, then 0 or a digit string not starting with 0
ScanNumber(b, i) ==
    LET first == IF b[i] = "-" THEN i + 1 ELSE i
        end == IF first <= Len(b) /\ b[first] = "0" THEN first + 1 ELSE ScanDigits(b, first)
    IN IF first > Len(b) \/ b[first] \notin Digits THEN ParseFail
       ELSE ParseOk(end, Node("number", <<>>, <<>>, i, end - 1))

ScanLiteral(b, i, word, kind) ==
    IF OccursAt(word, b, i)
    THEN ParseOk(i + Len(word), Node(kind, <<>>, <<>>, i, i + Len(word) - 1))
    ELSE ParseFail

RECURSIVE ParseValue(_, _)
RECURSIVE ParseMembers(_, _, _, _)
RECURSIVE ParseElements(_, _, _, _)

\* the JSON value that starts at or after index i (leading white space skipped)
ParseValue(b, i0) ==
    LET i == SkipSpace(b, i0)
    IN IF i > Len(b) THEN ParseFail
       ELSE IF b[i] = Q
            THEN LET r == ScanString(b, i + 1, <<>>)
                 IN IF r.ok THEN ParseOk(r.end, Node("string", r.s, <<>>, i, r.end - 1))
                    ELSE ParseFail
       ELSE IF b[i] = "{"
            THEN LET j == SkipSpace(b, i + 1)
                 IN IF j <= Len(b) /\ b[j] = "}"
                    THEN ParseOk(j + 1, Node("object", <<>>, <<>>, i, j))
                    ELSE ParseMembers(b, j, <<>>, i)
       ELSE IF b[i] = "["
            THEN LET j == SkipSpace(b, i + 1)
                 IN IF j <= Len(b) /\ b[j] = "]"
                    THEN ParseOk(j + 1, Node("array", <<>>, <<>>, i, j))
                    ELSE ParseElements(b, j, <<>>, i)
       ELSE IF b[i] = "-" \/ b[i] \in Digits THEN ScanNumber(b, i)
       ELSE IF b[i] = "t" THEN ScanLiteral(b, i, <<"t", "r", "u", "e">>, "bool")
       ELSE IF b[i] = "f" THEN ScanLiteral(b, i, <<"f", "a", "l", "s", "e">>, "bool")
       ELSE IF b[i] = "n" THEN ScanLiteral(b, i, <<"n", "u", "l", "l">>, "null")
       ELSE ParseFail

\* the members of an object from its next key at index i; start is the place of "{"
ParseMembers(b, i, acc, start) ==
    IF i > Len(b) \/ b[i] # Q THEN ParseFail
    ELSE LET key == ScanString(b, i + 1, <<>>)
             colon == IF key.ok THEN SkipSpace(b, key.end) ELSE 0
             val == IF key.ok /\ colon <= Len(b) /\ b[colon] = ":"
                    THEN ParseValue(b, colon + 1) ELSE ParseFail
             next == IF val.ok THEN SkipSpace(b, val.end) ELSE 0
             members == Append(acc, [key |-> key.s, val |-> val.node])
         IN IF ~val.ok \/ next > Len(b) THEN ParseFail
            ELSE IF b[next] = "}" THEN ParseOk(next + 1, Node("object", <<>>, members, start, next))
            ELSE IF b[next] = "," THEN ParseMembers(b, SkipSpace(b, next + 1), members, start)
            ELSE ParseFail

\* the elements of an array from the element at index i; start is the place of "["
ParseElements(b, i, acc, start) ==
    LET val == ParseValue(b, i)
        next == IF val.ok THEN SkipSpace(b, val.end) ELSE 0
        elements == Append(acc, val.node)
    IN IF ~val.ok \/ next > Len(b) THEN ParseFail
       ELSE IF b[next] = "]" THEN ParseOk(next + 1, Node("array", <<>>, elements, start, next))
       ELSE IF b[next] = "," THEN ParseElements(b, next + 1, elements, start)
       ELSE ParseFail

\* r parsed the whole of b: only white space follows the value
WholeDocument(b, r) == IF r.ok /\ SkipSpace(b, r.end) = Len(b) + 1 THEN r ELSE ParseFail

\* checkValid: b is exactly one JSON value, white space around it allowed
ParseDocument(b) == WholeDocument(b, ParseValue(b, 1))

\* the literal bytes of a parsed value
RawOf(b, node) == Slice(b, node.from, node.to)

(***************************************************************************)
(* encoding/json: Unmarshal into the structs of payload.go.  Object keys   *)
(* are matched exactly (no upper-case variant of a key occurs in a frame   *)
(* of this model); a JSON null leaves a string field as it is; a value of  *)
(* the wrong kind is recorded as a type error and decoding goes on.        *)
(***************************************************************************)
FirstErr(e1, e2) == IF e1 # "nil" THEN e1 ELSE e2

\* decoding a JSON value into a Go string field holding cur
StringField(cur, node) ==
    IF node.k = "string" THEN [v |-> node.s, err |-> "nil"]
    ELSE IF node.k = "null" THEN [v |-> cur, err |-> "nil"]
    ELSE [v |-> cur, err |-> "type"]

\* decoding a JSON value into an interface{}
InterfaceValue(b, node) ==
    IF node.k = "string" THEN StrValue(node.s) ELSE [k |-> node.k, s |-> RawOf(b, node)]

RECURSIVE MapEntries(_, _, _)
MapEntries(b, items, f) ==
    IF items = <<>> THEN f
    ELSE LET it == Head(items)
             g == [k \in DOMAIN f \cup {it.key} |->
                      IF k = it.key THEN InterfaceValue(b, it.val) ELSE f[k]]
         IN MapEntries(b, Tail(items), g)

\* decoding a JSON value into a map[string]interface{} field holding cur
MapField(b, cur, node) ==
    IF node.k = "object" THEN [v |-> MapOf(MapEntries(b, node.items, cur.m)), err |-> "nil"]
    ELSE IF node.k = "null" THEN [v |-> NilMap, err |-> "nil"]
    ELSE [v |-> cur, err |-> "type"]

\* decoding a JSON value into a []json.RawMessage field holding cur
RawSliceField(b, cur, node) ==
    IF node.k = "array"
    THEN [v |-> SliceOf([i \in 1..Len(node.items) |-> RawOf(b, node.items[i])]), err |-> "nil"]
    ELSE IF node.k = "null" THEN [v |-> NilSlice, err |-> "nil"]
    ELSE [v |-> cur, err |-> "type"]

KeyQuery == <<"q", "u", "e", "r", "y">>
KeyVariables == <<"v", "a", "r", "i", "a", "b", "l", "e", "s">>
KeyOperationName == <<"o", "p", "e", "r", "a", "t", "i", "o", "n", "N", "a", "m", "e">>
KeyData == <<"d", "a", "t", "a">>
KeyErrors == <<"e", "r", "r", "o", "r", "s">>
KeyMsg == <<"m", "s", "g">>
KeyID == <<"i", "d">>
KeyType == <<"t", "y", "p", "e">>
KeyPayload == <<"p", "a", "y", "l", "o", "a", "d">>

\* one member of a JSON object decoded into the struct value v of the given kind
DecodeMember(b, kind, v, it) ==
    CASE kind = "raw" /\ it.key = KeyID ->
            LET r == StringField(v.ID, it.val) IN [v |-> [v EXCEPT !.ID = r.v], err |-> r.err]
      [] kind = "raw" /\ it.key = KeyType ->
            LET r == StringField(v.Type, it.val) IN [v |-> [v EXCEPT !.Type = r.v], err |-> r.err]
      [] kind = "raw" /\ it.key = KeyPayload ->
            [v |-> [v EXCEPT !.Payload = RawOf(b, it.val)], err |-> "nil"]
      [] kind = "Request" /\ it.key = KeyQuery ->
            LET r == StringField(v.Query, it.val) IN [v |-> [v EXCEPT !.Query = r.v], err |-> r.err]
      [] kind = "Request" /\ it.key = KeyVariables ->
            LET r == MapField(b, v.Variables, it.val)
            IN [v |-> [v EXCEPT !.Variables = r.v], err |-> r.err]
      [] kind = "Request" /\ it.key = KeyOperationName ->
            LET r == StringField(v.OperationName, it.val)
            IN [v |-> [v EXCEPT !.OperationName = r.v], err |-> r.err]
      [] kind = "Response" /\ it.key = KeyData ->
            [v |-> [v EXCEPT !.Data = RawOf(b, it.val)], err |-> "nil"]
      [] kind = "Response" /\ it.key = KeyErrors ->
            LET r == RawSliceField(b, v.Errors, it.val)
            IN [v |-> [v EXCEPT !.Errors = r.v], err |-> r.err]
      [] kind = "ServerError" /\ it.key = KeyMsg ->
            LET r == StringField(v.Msg, it.val) IN [v |-> [v EXCEPT !.Msg = r.v], err |-> r.err]
      [] OTHER -> [v |-> v, err |-> "nil"]

RECURSIVE DecodeMembers(_, _, _, _, _)
DecodeMembers(b, kind, v, err, items) ==
    IF items = <<>> THEN [v |-> v, err |-> err]
    ELSE LET r == DecodeMember(b, kind, v, Head(items))
         IN DecodeMembers(b, kind, r.v, FirstErr(err, r.err), Tail(items))

\* the scanned document doc of b decoded into the struct v of the given kind
DecodeDocument(b, kind, v, doc) ==
    IF ~doc.ok THEN [v |-> v, err |-> "syntax"]
    ELSE IF doc.node.k = "object" THEN DecodeMembers(b, kind, v, "nil", doc.node.items)
    ELSE IF doc.node.k = "null" THEN [v |-> v, err |-> "nil"]
    ELSE [v |-> v, err |-> "type"]

\* json.Unmarshal(b, &v) for a struct v of the given kind
jsonUnmarshal(b, kind, v) == DecodeDocument(b, kind, v, ParseDocument(b))

\* the zero value of the anonymous struct raw of UnmarshalJSON
ZeroRaw == [ID |-> <<>>, Type |-> <<>>, Payload |-> <<>>]

(***************************************************************************)
(* operationMessage.UnmarshalJSON: decodes b into the message m.           *)
(***************************************************************************)
RequestTypes == {gqlConnectionInit, gqlStart, gqlStop, gqlConnectionTerminate}
ResponseTypes == {gqlConnectionError, gqlConnectionAck, gqlData, gqlComplete, gqlConnectionKeepAlive}

\* the type switch on raw.Type: the payload struct allocated for it
PayloadKindOf(type) ==
    IF type \in RequestTypes THEN "Request"
    ELSE IF type \in ResponseTypes THEN "Response"
    ELSE IF type = gqlError THEN "ServerError"
    ELSE "unsupported"

ZeroPayload(kind) ==
    CASE kind = "Request" -> Request(<<>>, NilMap, <<>>)
      [] kind = "Response" -> Response(<<>>, NilSlice)
      [] kind = "ServerError" -> ServerError(<<>>)

\* m.ID is assigned only from a non-empty raw.ID
\* UnmarshalID with the ids of the first two operations taken for one another
UnmarshalIDSwapped(m, raw) ==
    IF raw.ID = <<"1">> THEN <<"2">>
    ELSE IF raw.ID = <<"2">> THEN <<"1">>
    ELSE IF raw.ID # <<>> THEN raw.ID ELSE m.ID

\* UnmarshalID into a message that is reused: a frame without an id keeps
\* the id of the frame decoded before it
UnmarshalIDStale(m, raw) == IF raw.ID # <<>> THEN raw.ID ELSE <<"1">>

UnmarshalID(m, raw) == IF raw.ID # <<>> THEN raw.ID ELSE m.ID

\* the end of UnmarshalJSON: m.Payload is the struct json.Unmarshal filled
\* and its error is returned
UnmarshalPayload(m1, inner) == [m |-> [m1 EXCEPT !.Payload = inner.v], err |-> inner.err]

\* UnmarshalJSON after json.Unmarshal(b, &raw) returned r
UnmarshalRaw(m, r) ==
    IF r.err # "nil" THEN [m |-> m, err |-> r.err]
    ELSE IF Len(r.v.Payload) = 0
         THEN [m |-> [m EXCEPT !.Type = r.v.Type, !.ID = UnmarshalID(m, r.v)], err |-> "nil"]
    ELSE IF PayloadKindOf(r.v.Type) = "unsupported"
         THEN [m |-> [m EXCEPT !.Type = r.v.Type, !.ID = UnmarshalID(m, r.v)],
               err |-> "unsupported message type"]
    ELSE UnmarshalPayload([m EXCEPT !.Type = r.v.Type, !.ID = UnmarshalID(m, r.v)],
                          jsonUnmarshal(r.v.Payload, PayloadKindOf(r.v.Type),
                                        ZeroPayload(PayloadKindOf(r.v.Type))))

\* UnmarshalJSON with the errors of json.Unmarshal dropped
UnmarshalJSONLax(m, b) ==
    [m |-> UnmarshalRaw(m, jsonUnmarshal(b, "raw", ZeroRaw)).m, err |-> "nil"]

UnmarshalJSON(m, b) == UnmarshalRaw(m, jsonUnmarshal(b, "raw", ZeroRaw))

\* a new(operationMessage)
ZeroMessage == operationMessage(<<>>, <<>>, NilPayload)

(***************************************************************************)
(* The messages the codec is exercised on.                                 *)
(***************************************************************************)
\* an id that closes its own string literal and carries a key of its own
InjectionID == <<"1", Q, ",", Q, "p", "a", "y", "l", "o", "a", "d", Q, ":", Q, "z">>

IDs == Strs \cup {InjectionID}

VarKey == <<"a">>
VarMaps ==
    {NilMap, MapOf(<<>>), MapOf([k \in {VarKey} |-> ChanValue])}
    \cup {MapOf([k \in {VarKey} |-> StrValue(s)]) : s \in {<<"a">>, <<Q>>, <<BS>>}}

Requests == {Request(q, v, o) : q \in Strs, v \in VarMaps, o \in Strs}

RawNull == <<"n", "u", "l", "l">>
RawObject == <<"{", Q, "a", Q, ":", "1", "}">>
RawValues == {<<>>, <<"1">>, RawNull, RawObject}
RawSlices == {NilSlice, SliceOf(<<>>), SliceOf(<<RawObject>>), SliceOf(<<<<"1">>, RawObject>>)}

Responses == {Response(d, e) : d \in RawValues, e \in RawSlices}

ServerErrors == {ServerError(s) : s \in Strs}

\* a type that is none of the ten
OtherTypes == {<<>>, <<"x">>}

PayloadsFor(type) ==
    {NilPayload, unknown}
    \cup (IF type \in {gqlConnectionInit, gqlStart} THEN Requests ELSE {})
    \cup (IF type \in {gqlData, gqlConnectionAck, gqlConnectionKeepAlive} THEN Responses ELSE {})
    \cup (IF type = gqlError THEN ServerErrors ELSE {})
    \cup (IF type \in OtherTypes THEN {Request(<<"a">>, NilMap, <<>>)} ELSE {})

Messages ==
    {operationMessage(id, type, payload) :
        id \in IDs, type \in KnownTypes \cup OtherTypes, payload \in {NilPayload}}
    \cup UNION {{operationMessage(id, type, payload) : id \in IDs, payload \in PayloadsFor(type)} :
                  type \in KnownTypes \cup OtherTypes}

\* the envelopes of the data model: a known type, an id exactly on the types
\* that carry one, a payload of the variant that goes with the type, every
\* raw value a JSON value and every variable a value JSON can express
ValidPayload(type, p) ==
    \/ p.kind = "nil"
    \/ /\ p.kind = "Request"
       /\ type \in {gqlConnectionInit, gqlStart}
       /\ \A k \in DOMAIN p.Variables.m : p.Variables.m[k].k = "str"
    \/ /\ p.kind = "Response"
       /\ type \in {gqlData, gqlConnectionAck, gqlConnectionKeepAlive}
       /\ p.Data # <<>>
       /\ \A i \in 1..Len(p.Errors.s) : p.Errors.s[i] # <<>>
    \/ /\ p.kind = "ServerError"
       /\ type = gqlError

ValidEnvelope(e) ==
    /\ e.Type \in KnownTypes
    /\ (e.ID # <<>>) <=> (e.Type \in OperationTypes)
    /\ ValidPayload(e.Type, e.Payload)

(***************************************************************************)
(* The codec as a state machine: a message is encoded, and the bytes are   *)
(* decoded into a new(operationMessage).                                   *)
(***************************************************************************)
NoResult == [m |-> ZeroMessage, err |-> "none"]

InitCodec ==
    /\ cPc = "input"
    /\ cMsg \in Messages
    /\ cBytes = <<>>
    /\ cOut = NoResult
    /\ cReuse = NoResult

CodecIdle ==
    /\ cPc = "idle"
    /\ cMsg = ZeroMessage
    /\ cBytes = <<>>
    /\ cOut = NoResult
    /\ cReuse = NoResult

Encode ==
    /\ cPc = "input"
    /\ cBytes' = MarshalJSON(cMsg).out
    /\ cPc' = "encoded"
    /\ UNCHANGED <<cMsg, cOut, cReuse, varsDial, varsWire, varsSys>>

Decode ==
    /\ cPc = "encoded"
    /\ cOut' = UnmarshalJSON(ZeroMessage, cBytes)
    /\ cPc' = "decoded"
    /\ UNCHANGED <<cMsg, cBytes, cReuse, varsDial, varsWire, varsSys>>

\* the envelopes a caller may hand to UnmarshalJSON in place of a new one:
\* one that holds what an earlier frame was decoded to
UsedMessages ==
    {operationMessage(<<"1">>, gqlData, Response(RawObject, NilSlice)),
     operationMessage(<<>>, gqlConnectionAck, NilPayload)}

\* the same bytes decoded into an envelope that is reused
DecodeReused ==
    /\ cPc = "decoded"
    /\ \E m \in UsedMessages : cReuse' = UnmarshalJSON(m, cBytes)
    /\ cPc' = "redecoded"
    /\ UNCHANGED <<cMsg, cBytes, cOut, varsDial, varsWire, varsSys>>

NextCodec == Encode \/ Decode \/ DecodeReused

(***************************************************************************)
(* Dial and its options (conn.go).                                         *)
(***************************************************************************)
\* CompressionMode: the constants are numbered by iota
CompressionNoContextTakeover == 0
CompressionContextTakeover == 1
CompressionDisabled == 2
CompressionModes ==
    {CompressionNoContextTakeover, CompressionContextTakeover, CompressionDisabled}

\* dialOpts; a client or headers value is named by a string
dialOpts(client, headers, compression, threshold) ==
    [client |-> client, headers |-> headers, compression |-> compression,
     threshold |-> threshold]

\* the options: compression{mode, threshold}, and the optionFn of
\* WithHTTPClient and of WithHeaders
WithCompression(mode, threshold) == [opt |-> "compression", mode |-> mode, threshold |-> threshold]
WithHTTPClient == [opt |-> "client", mode |-> 0, threshold |-> 0]
WithHeaders == [opt |-> "headers", mode |-> 0, threshold |-> 0]

\* opt.SetDial(dopts)
SetDial(opt, dopts) ==
    IF opt.opt = "compression"
    THEN [dopts EXCEPT !.compression = opt.mode, !.threshold = opt.threshold]
    ELSE IF opt.opt = "client" THEN [dopts EXCEPT !.client = "custom"]
    ELSE [dopts EXCEPT !.headers = "custom"]

\* for _, opt := range opts { opt.SetDial(dopts) }
RECURSIVE SetDialAll(_, _)
SetDialAll(opts, dopts) ==
    IF opts = <<>> THEN dopts ELSE SetDialAll(Tail(opts), SetDial(Head(opts), dopts))

\* Dial up to the call of websocket.Dial: the websocket.DialOptions d.  The
\* fields of dialOpts that the literal does not name have their zero value.
Dial(opts) ==
    LET dopts == SetDialAll(opts, dialOpts("http.DefaultClient", "nil", 0, 0))
    IN [HTTPClient |-> dopts.client, HTTPHeader |-> dopts.headers,
        CompressionMode |-> dopts.compression,
        CompressionThreshold |-> dopts.threshold]

\* the calls of Dial: up to MaxOpts options
DialOptions ==
    {WithCompression(m, t) : m \in CompressionModes, t \in {0, 512}}
    \cup {WithHTTPClient, WithHeaders}
OptionLists == UNION {[1..n -> DialOptions] : n \in 0..MaxOpts}

NoDial == [HTTPClient |-> "none", HTTPHeader |-> "none", CompressionMode |-> 0,
           CompressionThreshold |-> 0]

InitDial ==
    /\ dPc = "input"
    /\ dOpts \in OptionLists
    /\ dOut = NoDial

DialIdle ==
    /\ dPc = "idle"
    /\ dOpts = <<>>
    /\ dOut = NoDial

DialCall ==
    /\ dPc = "input"
    /\ dOut' = Dial(dOpts)
    /\ dPc' = "dialed"
    /\ UNCHANGED <<dOpts, varsCodec, varsWire, varsSys>>

(***************************************************************************)
(* Conn (conn.go).  The websocket is open until the peer closes it or      *)
(* wc.Close is called; a Write on a websocket that is not open fails.      *)
(***************************************************************************)
Callers == 1..NumCallers
Closers == 1..NumClosers

\* the end of Conn.write: the marshalled bytes r handed to wc.Write
\* Conn.write whose bytes are accepted whatever the state of the websocket
connWriteBytesOblivious(w, r) ==
    IF r.err # "nil" THEN [ok |-> FALSE, frame |-> <<>>]
    ELSE [ok |-> TRUE, frame |-> r.out]

connWriteBytes(w, r) ==
    IF r.err # "nil" THEN [ok |-> FALSE, frame |-> <<>>]
    ELSE IF w = "open" THEN [ok |-> TRUE, frame |-> r.out]
    ELSE [ok |-> FALSE, frame |-> <<>>]

\* Conn.write: the message is marshalled and the bytes handed to wc.Write
connWrite(w, msg) == connWriteBytes(w, MarshalJSON(msg))

\* Tasks that call Conn.write at the same time.  Conn.write marshals the
\* message and calls wc.Write with no lock of its own (Conn has the fields wc
\* and done only); whether wc.Write takes the bytes of one call as a whole
\* while another call is under way is the transport's affair (spec 5: "the
\* transport itself is not assumed to serialize concurrent writers"), so both
\* outcomes are modelled.
Writer(pc, frame, rest) == [pc |-> pc, frame |-> frame, rest |-> rest]

WireIdle ==
    /\ wire = <<>>
    /\ wr = [t \in Callers |-> Writer("idle", <<>>, <<>>)]

\* Conn.Close once c.write returned w: its error is returned at once
CloseWritten(c, w) ==
    /\ done' = "closed"
    /\ c2s' = IF w.ok THEN Append(c2s, w.frame) ELSE c2s
    /\ closer' = [closer EXCEPT ![c] = IF w.ok THEN "release" ELSE "returnedErr"]

\* Conn.Close up to the write of connection_terminate: close(c.done), which
\* panics on a closed channel, then c.write
CloseBegin(c) ==
    /\ closer[c] = "idle"
    /\ IF done = "closed"
       THEN /\ closer' = [closer EXCEPT ![c] = "panicked"]
            /\ UNCHANGED <<done, c2s>>
       ELSE CloseWritten(c, connWrite(wc, operationMessage(<<>>, gqlConnectionTerminate, NilPayload)))
    /\ UNCHANGED <<varsCodec, varsDial, varsWire, wc, s2c, varsClient, varsServer, varsHist>>

\* Conn.Close returning without c.wc.Close
CloseReleaseLeak(c) ==
    /\ closer[c] = "release"
    /\ closer' = [closer EXCEPT ![c] = "returned"]
    /\ UNCHANGED <<varsCodec, varsDial, varsWire, done, wc, c2s, s2c, varsClient, varsServer, varsHist>>

\* Conn.Close, last statement: return c.wc.Close(...); the frames in flight
\* are lost and the server, whose reads fail from now on, stops
CloseRelease(c) ==
    /\ closer[c] = "release"
    /\ wc' = "closed"
    /\ s2c' = <<>>
    /\ c2s' = <<>>
    /\ srv' = "Closed"
    /\ active' = {}
    /\ closer' = [closer EXCEPT ![c] = "returned"]
    /\ UNCHANGED <<varsCodec, varsDial, varsWire, done, varsClient, rogue, varsHist>>

(***************************************************************************)
(* Errors and result slots of the client.                                  *)
(***************************************************************************)
Err(kind, cause, msg) == [kind |-> kind, cause |-> cause, msg |-> msg]
NoErr == Err("nil", "nil", <<>>)
ErrIO(cause) == Err("IO", cause, <<>>)
ErrUnexpectedMessage == Err("UnexpectedMessage", "nil", <<>>)
ErrDecode(cause) == Err("Decode", cause, <<>>)
ErrConnection == Err("ConnectionError", "nil", <<>>)
ErrServer(msg) == Err("ServerError", "nil", msg)
ErrCanceled == Err("Canceled", "nil", <<>>)

Slot(reg, full, resp, err) == [reg |-> reg, full |-> full, resp |-> resp, err |-> err]
Unregistered == Slot(FALSE, FALSE, NilPayload, NoErr)
EmptySlot == Slot(TRUE, FALSE, NilPayload, NoErr)

DigitChars == <<"1", "2", "3", "4", "5", "6", "7", "8", "9">>
opID(n) == <<DigitChars[n]>>
OpIDs == {opID(n) : n \in Callers}

\* the request of each caller: distinct queries
QueryChars == <<"a", "b", "c", "d", "e", "f", "g", "h", "i">>
QueryOf(p) == <<QueryChars[p]>>

SubRec(pc, ctx, id, resp, err) == [pc |-> pc, ctx |-> ctx, id |-> id, resp |-> resp, err |-> err]

\* the resolver of the server: the data it renders for a query, or an error text
DataFor(query) == <<Q>> \o query \o <<Q>>
ErrTexts == {<<"e">>, <<Q>>}
NoOutcome == [kind |-> "none", resp |-> NilPayload, msg |-> <<>>]
\* the resolution was cancelled by stop before its resolver returned
Cancelled == [kind |-> "cancelled", resp |-> NilPayload, msg |-> <<>>]
Outcomes(req) ==
    {[kind |-> "ok", resp |-> Response(DataFor(req.Query), NilSlice), msg |-> <<>>]}
    \cup {[kind |-> "error", resp |-> NilPayload, msg |-> e] : e \in ErrTexts}

InitSys ==
    /\ done = "open"
    /\ wc = "open"
    /\ closer = [c \in Closers |-> "idle"]
    /\ c2s = <<>>
    /\ s2c = <<>>
    /\ cstate = "Unestablished"
    /\ fatal = NoErr
    /\ waiters = [id \in OpIDs |-> Unregistered]
    /\ nextID = 1
    /\ reader = "notStarted"
    /\ sub = [p \in Callers |-> SubRec("idle", "background", <<>>, NilPayload, NoErr)]
    /\ srv = "AwaitInit"
    /\ active = {}
    /\ rogue = FALSE
    /\ produced = [id \in OpIDs |-> NoOutcome]
    /\ hist = [p \in Callers |-> "none"]
    /\ lateReads = FALSE
    /\ sawOrphan = FALSE
    /\ sawMalformed = FALSE
    /\ sawLateComplete = FALSE
    /\ startedClosed = [p \in Callers |-> FALSE]

(***************************************************************************)
(* Client multiplexer: Submit.                                             *)
(***************************************************************************)
\* a Submit that has started and has neither a result nor returned
Pending(p) ==
    \/ sub[p].pc = "awaitReady"
    \/ sub[p].pc = "waiting" /\ ~waiters[sub[p].id].full

\* the fatal broadcast: every registered waiter without a result gets err
Broadcast(w, err) ==
    [id \in OpIDs |-> IF w[id].reg /\ ~w[id].full
                      THEN Slot(TRUE, TRUE, NilPayload, err) ELSE w[id]]

HistAtFault == [p \in Callers |-> IF Pending(p) THEN "pending" ELSE hist[p]]

\* the first Submit once connection_init was written with result w: the
\* reader is started, or the connection is faulted by the failed write
Handshake(p, ctx, w) ==
    IF w.ok
    THEN /\ c2s' = Append(c2s, w.frame)
         /\ cstate' = "Handshaking"
         /\ reader' = "running"
         /\ sub' = [sub EXCEPT ![p] = SubRec("awaitReady", ctx, <<>>, NilPayload, NoErr)]
         /\ UNCHANGED <<fatal, hist>>
    ELSE /\ cstate' = "Faulted"
         /\ fatal' = ErrIO(wc)
         /\ sub' = [sub EXCEPT ![p] = SubRec("done", ctx, <<>>, NilPayload, ErrIO(wc))]
         /\ hist' = [hist EXCEPT ![p] = "pending"]
         /\ UNCHANGED <<reader, c2s>>

\* Submit whose callers each start the handshake until the connection is Ready
SubmitStartEager(p, ctx) ==
    /\ sub[p].pc = "idle"
    /\ startedClosed' = [startedClosed EXCEPT ![p] = wc = "closed" /\ fatal.kind \in {"nil", "IO"}]
    /\ IF cstate = "Faulted"
       THEN /\ sub' = [sub EXCEPT ![p] = SubRec("done", ctx, <<>>, NilPayload, fatal)]
            /\ hist' = [hist EXCEPT ![p] = "later"]
            /\ UNCHANGED <<cstate, fatal, reader, c2s>>
       ELSE IF cstate \in {"Unestablished", "Handshaking"}
       THEN Handshake(p, ctx, connWrite(wc, operationMessage(<<>>, gqlConnectionInit, NilPayload)))
       ELSE /\ sub' = [sub EXCEPT ![p] = SubRec("awaitReady", ctx, <<>>, NilPayload, NoErr)]
            /\ UNCHANGED <<cstate, fatal, reader, c2s, hist>>
    /\ UNCHANGED <<varsCodec, varsDial, varsWire, done, wc, closer, s2c, waiters, nextID, varsServer, produced, histReader>>

\* Submit is called: a faulted connection fails it at once; the first call
\* sends connection_init and starts the reader
SubmitStart(p, ctx) ==
    /\ sub[p].pc = "idle"
    /\ startedClosed' = [startedClosed EXCEPT ![p] = wc = "closed" /\ fatal.kind \in {"nil", "IO"}]
    /\ IF cstate = "Faulted"
       THEN /\ sub' = [sub EXCEPT ![p] = SubRec("done", ctx, <<>>, NilPayload, fatal)]
            /\ hist' = [hist EXCEPT ![p] = "later"]
            /\ UNCHANGED <<cstate, fatal, reader, c2s>>
       ELSE IF cstate = "Unestablished"
       THEN Handshake(p, ctx, connWrite(wc, operationMessage(<<>>, gqlConnectionInit, NilPayload)))
       ELSE /\ sub' = [sub EXCEPT ![p] = SubRec("awaitReady", ctx, <<>>, NilPayload, NoErr)]
            /\ UNCHANGED <<cstate, fatal, reader, c2s, hist>>
    /\ UNCHANGED <<varsCodec, varsDial, varsWire, done, wc, closer, s2c, waiters, nextID, varsServer, produced, histReader>>

\* Submit once start{id} was written with result w
StartWritten(p, id, w) ==
    IF w.ok
    THEN /\ c2s' = Append(c2s, w.frame)
         /\ waiters' = [waiters EXCEPT ![id] = EmptySlot]
         /\ nextID' = nextID + 1
         /\ sub' = [sub EXCEPT ![p].pc = "waiting", ![p].id = id]
    ELSE /\ sub' = [sub EXCEPT ![p].pc = "done", ![p].err = ErrIO(wc)]
         /\ UNCHANGED <<c2s, waiters, nextID>>

\* the connection is Ready: a fresh id is allocated, the waiter registered and start sent
SubmitSend(p) ==
    /\ sub[p].pc = "awaitReady"
    /\ cstate = "Ready"
    /\ nextID <= NumCallers
    /\ StartWritten(p, opID(nextID),
                    connWrite(wc, operationMessage(opID(nextID), gqlStart,
                                                   Request(QueryOf(p), NilMap, <<>>))))
    /\ UNCHANGED <<varsCodec, varsDial, varsWire, done, wc, closer, s2c, cstate, fatal, reader, varsServer, varsHist>>

\* the connection faulted while the call waited for Ready
SubmitFail(p) ==
    /\ sub[p].pc = "awaitReady"
    /\ cstate = "Faulted"
    /\ sub' = [sub EXCEPT ![p].pc = "done", ![p].err = fatal]
    /\ UNCHANGED <<varsCodec, varsDial, varsWire, varsConn, cstate, fatal, waiters, nextID, reader, varsServer, varsHist>>

\* a Submit that returns the result of its slot and leaves the waiter registered
SubmitReturnLeak(p) ==
    /\ sub[p].pc = "waiting"
    /\ waiters[sub[p].id].full
    /\ sub' = [sub EXCEPT ![p].pc = "done",
                          ![p].resp = waiters[sub[p].id].resp,
                          ![p].err = waiters[sub[p].id].err]
    /\ UNCHANGED <<varsCodec, varsDial, varsWire, varsConn, cstate, fatal, waiters, nextID, reader, varsServer, varsHist>>

\* the slot holds a result: the waiter is unregistered and the result returned
SubmitReturn(p) ==
    /\ sub[p].pc = "waiting"
    /\ waiters[sub[p].id].full
    /\ sub' = [sub EXCEPT ![p].pc = "done",
                          ![p].resp = waiters[sub[p].id].resp,
                          ![p].err = waiters[sub[p].id].err]
    /\ waiters' = [waiters EXCEPT ![sub[p].id] = Unregistered]
    /\ UNCHANGED <<varsCodec, varsDial, varsWire, varsConn, cstate, fatal, nextID, reader, varsServer, varsHist>>

\* stop{id} is sent best-effort: w is the result of its write
StopWritten(w) == c2s' = IF w.ok THEN Append(c2s, w.frame) ELSE c2s

\* the caller's context ends before a result arrived: stop is sent
\* best-effort, the waiter unregistered and Canceled returned
SubmitCancel(p) ==
    /\ sub[p].pc = "waiting"
    /\ sub[p].ctx = "cancel"
    /\ ~waiters[sub[p].id].full
    /\ StopWritten(connWrite(wc, operationMessage(sub[p].id, gqlStop, NilPayload)))
    /\ waiters' = [waiters EXCEPT ![sub[p].id] = Unregistered]
    /\ sub' = [sub EXCEPT ![p].pc = "done", ![p].err = ErrCanceled]
    /\ UNCHANGED <<varsCodec, varsDial, varsWire, done, wc, closer, s2c, cstate, fatal, nextID, reader, varsServer, varsHist>>

(***************************************************************************)
(* Client multiplexer: the reader task.                                    *)
(***************************************************************************)
\* the frames the servers of the tests write in place of a proper response
badAckMsg == <<"{", Q, "t", "y", "p", "e", Q, ":", Q>> \o gqlConnectionAck \o <<Q>>
badDataMsg == <<"{", Q, "t", "y", "p", "e", Q, ":", Q>> \o gqlData
                  \o <<Q, ",", Q, "p", "a", "y", "l", "o", "a", "d", Q, "}">>
\* a payload that does not match its type: a number where a Response is due
mismatchMsg == <<"{", Q, "t", "y", "p", "e", Q, ":", Q>> \o gqlData
                   \o <<Q, ",", Q, "p", "a", "y", "l", "o", "a", "d", Q, ":", "1", "}">>
MalformedFrames == {badAckMsg, badDataMsg, mismatchMsg}

\* an id no operation of the connection has
StrangerID == <<"0">>
OrphanFrames ==
    {MarshalJSON(operationMessage(id, gqlData, NilPayload)).out : id \in {<<>>, StrangerID}}

ReaderDo(kind, err, id, slot) == [kind |-> kind, err |-> err, id |-> id, slot |-> slot]
ReaderFault(err) == ReaderDo("fault", err, <<>>, Unregistered)
ReaderIgnore == ReaderDo("ignore", NoErr, <<>>, Unregistered)

\* the result a correlated message puts into the waiter's slot
Delivery(m) ==
    IF m.Type = gqlData THEN Slot(TRUE, TRUE, m.Payload, NoErr)
    ELSE IF m.Type = gqlError THEN Slot(TRUE, TRUE, NilPayload, ErrServer(m.Payload.Msg))
    ELSE Slot(TRUE, TRUE, NilPayload, NoErr)

\* the waiter a correlated message is delivered to
WaiterFor(m) == m.ID

\* a reader for which a complete without a registered waiter is an orphan
\* like any other
DispatchStrict(d) ==
    IF d.err # "nil" THEN ReaderFault(ErrDecode(d.err))
    ELSE IF d.m.Type = gqlConnectionAck
         THEN IF cstate = "Handshaking" THEN ReaderDo("ready", NoErr, <<>>, Unregistered)
              ELSE ReaderFault(ErrUnexpectedMessage)
    ELSE IF d.m.Type = gqlConnectionError
         THEN IF cstate = "Handshaking" THEN ReaderFault(ErrConnection)
              ELSE ReaderFault(ErrUnexpectedMessage)
    ELSE IF d.m.Type = gqlConnectionKeepAlive THEN ReaderIgnore
    ELSE IF d.m.Type \in {gqlData, gqlError, gqlComplete}
         THEN LET id == WaiterFor(d.m)
              IN IF id \in OpIDs /\ waiters[id].reg
                 THEN IF waiters[id].full THEN ReaderIgnore
                      ELSE ReaderDo("deliver", NoErr, id, Delivery(d.m))
                 ELSE ReaderFault(ErrUnexpectedMessage)
    ELSE ReaderFault(ErrUnexpectedMessage)

\* what the reader does with a decoded frame d = [m, err]
Dispatch(d) ==
    IF d.err # "nil" THEN ReaderFault(ErrDecode(d.err))
    ELSE IF d.m.Type = gqlConnectionAck
         THEN IF cstate = "Handshaking" THEN ReaderDo("ready", NoErr, <<>>, Unregistered)
              ELSE ReaderFault(ErrUnexpectedMessage)
    ELSE IF d.m.Type = gqlConnectionError
         THEN IF cstate = "Handshaking" THEN ReaderFault(ErrConnection)
              ELSE ReaderFault(ErrUnexpectedMessage)
    ELSE IF d.m.Type = gqlConnectionKeepAlive THEN ReaderIgnore
    ELSE IF d.m.Type \in {gqlData, gqlError, gqlComplete}
         THEN LET id == WaiterFor(d.m)
              IN IF id \in OpIDs /\ waiters[id].reg
                 THEN IF waiters[id].full THEN ReaderIgnore
                      ELSE ReaderDo("deliver", NoErr, id, Delivery(d.m))
                 ELSE IF d.m.Type = gqlComplete THEN ReaderIgnore
                 ELSE ReaderFault(ErrUnexpectedMessage)
    ELSE ReaderFault(ErrUnexpectedMessage)

\* the string values the members named key have in the scanned object doc
MemberStrings(doc, key) ==
    IF doc.ok /\ doc.node.k = "object"
    THEN {doc.node.items[i].val.s :
             i \in {j \in 1..Len(doc.node.items) : doc.node.items[j].key = key}}
    ELSE {}

OrphanIDs(ids) == \A id \in ids : id \notin OpIDs \/ ~waiters[id].reg

OrphanDocument(doc) ==
    /\ MemberStrings(doc, KeyType) = {gqlData}
    /\ OrphanIDs(MemberStrings(doc, KeyID))

\* the complete envelope of an operation whose waiter is no longer registered
LateComplete(id) == MarshalJSON(operationMessage(id, gqlComplete, NilPayload)).out
IsLateComplete(f) == \E id \in OpIDs : f = LateComplete(id) /\ ~waiters[id].reg

\* a frame that is a well-formed data envelope whose id has no registered waiter
IsOrphan(f) == f \notin MalformedFrames /\ OrphanDocument(ParseDocument(f))

\* the reader's turn carried out: act is what it does, took whether a frame was read
\* a reader that goes on reading after it has faulted the connection
ReaderApplyRestless(act, took) ==
    /\ s2c' = IF took THEN Tail(s2c) ELSE s2c
    /\ lateReads' = (lateReads \/ (took /\ cstate = "Faulted"))
    /\ cstate' = IF act.kind = "fault" THEN "Faulted"
                 ELSE IF act.kind = "ready" THEN "Ready" ELSE cstate
    /\ fatal' = IF act.kind = "fault" THEN act.err ELSE fatal
    /\ reader' = reader
    /\ waiters' = IF act.kind = "fault" THEN Broadcast(waiters, act.err)
                  ELSE IF act.kind = "deliver" THEN [waiters EXCEPT ![act.id] = act.slot]
                  ELSE waiters
    /\ hist' = IF act.kind = "fault" THEN HistAtFault ELSE hist

ReaderApply(act, took) ==
    /\ s2c' = IF took THEN Tail(s2c) ELSE s2c
    /\ lateReads' = (lateReads \/ (took /\ cstate = "Faulted"))
    /\ cstate' = IF act.kind = "fault" THEN "Faulted"
                 ELSE IF act.kind = "ready" THEN "Ready" ELSE cstate
    /\ fatal' = IF act.kind = "fault" THEN act.err ELSE fatal
    /\ reader' = IF act.kind = "fault" THEN "stopped" ELSE reader
    /\ waiters' = IF act.kind = "fault" THEN Broadcast(waiters, act.err)
                  ELSE IF act.kind = "deliver" THEN [waiters EXCEPT ![act.id] = act.slot]
                  ELSE waiters
    /\ hist' = IF act.kind = "fault" THEN HistAtFault ELSE hist

\* one turn of the reader loop: read, decode, dispatch; a read on a
\* websocket that is not open fails
ReaderStep ==
    /\ reader = "running"
    /\ IF wc # "open"
       THEN /\ ReaderApply(ReaderFault(ErrIO(wc)), FALSE)
            /\ UNCHANGED <<sawMalformed, sawOrphan, sawLateComplete>>
       ELSE /\ s2c # <<>>
            /\ ReaderApply(Dispatch(UnmarshalJSON(ZeroMessage, Head(s2c))), TRUE)
            /\ sawMalformed' = (sawMalformed \/ Head(s2c) \in MalformedFrames)
            /\ sawOrphan' = (sawOrphan \/ IsOrphan(Head(s2c)))
            /\ sawLateComplete' = (sawLateComplete \/ IsLateComplete(Head(s2c)))
    /\ UNCHANGED <<varsCodec, varsDial, varsWire, done, wc, closer, c2s, nextID, sub, varsServer, produced, startedClosed>>

(***************************************************************************)
(* Server handler.                                                         *)
(***************************************************************************)
ServerDo(kind, frames, act) == [kind |-> kind, frames |-> frames, active |-> act]

ServerFrame(msg) == MarshalJSON(msg).out

\* the text of the error sent for a start whose id has a resolution under way
DuplicateMsg == <<"d">>

\* a server that takes every start as a new operation
ServeLax(d) ==
    IF d.err # "nil" THEN ServerDo("close", <<>>, {})
    ELSE IF srv = "AwaitInit"
         THEN IF d.m.Type = gqlConnectionInit
              THEN ServerDo("serving",
                            <<ServerFrame(operationMessage(<<>>, gqlConnectionAck, NilPayload))>>,
                            active)
              ELSE ServerDo("close", <<>>, {})
    ELSE IF d.m.Type = gqlStart /\ d.m.Payload.kind = "Request"
         THEN ServerDo("serving", <<>>, active \cup {[id |-> d.m.ID, req |-> d.m.Payload]})
    ELSE IF d.m.Type = gqlStop
         THEN ServerDo("serving", <<>>, {a \in active : a.id # d.m.ID})
    ELSE ServerDo("close", <<>>, {})

\* what the reader loop of the server does with a decoded frame d = [m, err]
Serve(d) ==
    IF d.err # "nil" THEN ServerDo("close", <<>>, {})
    ELSE IF srv = "AwaitInit"
         THEN IF d.m.Type = gqlConnectionInit
              THEN ServerDo("serving",
                            <<ServerFrame(operationMessage(<<>>, gqlConnectionAck, NilPayload))>>,
                            active)
              ELSE ServerDo("close", <<>>, {})
    ELSE IF d.m.Type = gqlStart /\ d.m.Payload.kind = "Request"
         THEN IF \E a \in active : a.id = d.m.ID
              THEN ServerDo("serving",
                            <<ServerFrame(operationMessage(d.m.ID, gqlError, ServerError(DuplicateMsg)))>>,
                            active)
              ELSE ServerDo("serving", <<>>, active \cup {[id |-> d.m.ID, req |-> d.m.Payload]})
    ELSE IF d.m.Type = gqlStop
         THEN ServerDo("serving", <<>>, {a \in active : a.id # d.m.ID})
    ELSE ServerDo("close", <<>>, {})

\* the server's turn carried out: act is what it does with the frame read
ServerApply(act) ==
    /\ c2s' = IF act.kind = "close" THEN <<>> ELSE Tail(c2s)
    /\ srv' = IF act.kind = "close" THEN "Closed" ELSE "Serving"
    /\ wc' = IF act.kind = "close" THEN "peerClosed" ELSE wc
    /\ s2c' = IF act.kind = "close" THEN <<>> ELSE s2c \o act.frames
    /\ active' = act.active
    /\ produced' = [id \in OpIDs |->
                      IF act.kind = "serving" /\ \E a \in active \ act.active : a.id = id
                      THEN Cancelled ELSE produced[id]]

\* one turn of the reader loop of the server
ServerStep ==
    /\ srv # "Closed"
    /\ wc = "open"
    /\ c2s # <<>>
    /\ ServerApply(Serve(UnmarshalJSON(ZeroMessage, Head(c2s))))
    /\ UNCHANGED <<varsCodec, varsDial, varsWire, done, closer, varsClient, rogue, hist, histReader, startedClosed>>

\* a resolution task that closes every operation with complete, a failed one too
ResolutionFramesCompleteAlways(id, outcome) ==
    IF outcome.kind = "ok"
    THEN <<ServerFrame(operationMessage(id, gqlData, outcome.resp)),
           ServerFrame(operationMessage(id, gqlComplete, NilPayload))>>
    ELSE <<ServerFrame(operationMessage(id, gqlError, ServerError(outcome.msg))),
           ServerFrame(operationMessage(id, gqlComplete, NilPayload))>>

\* the envelopes a resolution task sends for the outcome of its resolver
ResolutionFrames(id, outcome) ==
    IF outcome.kind = "ok"
    THEN <<ServerFrame(operationMessage(id, gqlData, outcome.resp)),
           ServerFrame(operationMessage(id, gqlComplete, NilPayload))>>
    ELSE <<ServerFrame(operationMessage(id, gqlError, ServerError(outcome.msg)))>>

\* a resolution task: the resolver returns and the terminal response is sent
Resolve(a, outcome) ==
    /\ srv = "Serving"
    /\ wc = "open"
    /\ a \in active
    /\ s2c' = s2c \o ResolutionFrames(a.id, outcome)
    /\ active' = active \ {a}
    /\ produced' = [id \in OpIDs |-> IF id = a.id THEN outcome ELSE produced[id]]
    /\ UNCHANGED <<varsCodec, varsDial, varsWire, done, wc, closer, c2s, varsClient, srv, rogue, hist, histReader, startedClosed>>

(***************************************************************************)
(* The peer misbehaving, as the servers of the tests do.                   *)
(***************************************************************************)
RogueFrame(f) ==
    /\ wc = "open"
    /\ ~rogue
    /\ rogue' = TRUE
    /\ s2c' = Append(s2c, f)
    /\ UNCHANGED <<varsCodec, varsDial, varsWire, done, wc, closer, c2s, varsClient, srv, active, varsHist>>

\* the peer closes the connection: the frames in flight are lost
PeerClose ==
    /\ wc = "open"
    /\ wc' = "peerClosed"
    /\ s2c' = <<>>
    /\ c2s' = <<>>
    /\ srv' = "Closed"
    /\ active' = {}
    /\ UNCHANGED <<varsCodec, varsDial, varsWire, done, closer, varsClient, rogue, varsHist>>

(***************************************************************************)
(* The system: callers of Submit and Close on one client connection, its   *)
(* reader, and the server at the other end.                                *)
(***************************************************************************)
Contexts == {"background", "cancel"}

\* Submit, the reader and the server
NextBase ==
    \/ \E p \in Callers, ctx \in Contexts : SubmitStart(p, ctx)
    \/ \E p \in Callers : SubmitSend(p)
    \/ \E p \in Callers : SubmitFail(p)
    \/ \E p \in Callers : SubmitReturn(p)
    \/ \E p \in Callers : SubmitCancel(p)
    \/ ReaderStep
    \/ ServerStep
    \/ \E a \in active : \E o \in Outcomes(a.req) : Resolve(a, o)

\* ... with a peer that may write one rogue frame
NextSys ==
    \/ NextBase
    \/ \E f \in MalformedFrames \cup OrphanFrames : RogueFrame(f)

\* the codec is idle throughout and Dial has returned
Init == InitSys /\ CodecIdle /\ DialIdle /\ WireIdle

Spec == Init /\ [][NextSys]_vars

\* ... with calls of Conn.Close and a peer that may close the connection
NextClose ==
    \/ NextBase
    \/ \E c \in Closers : CloseBegin(c)
    \/ \E c \in Closers : CloseRelease(c)
    \/ PeerClose

SpecClose == Init /\ [][NextClose]_vars

\* the reader's turn on a websocket that is not open: its read fails
ReaderReadFails == wc # "open" /\ ReaderStep

\* the reader task and every blocked Submit are goroutines the scheduler
\* keeps running: a read of a websocket that is not open returns, and a
\* Submit whose result is there, or whose connection faulted, returns
FairSpecClose ==
    /\ SpecClose
    /\ WF_vars(ReaderReadFails)
    /\ \A p \in Callers : WF_vars(SubmitReturn(p))
    /\ \A p \in Callers : WF_vars(SubmitFail(p))

\* concurrent calls of Conn.write alone
\* what a task may write: the start and the stop of its operation, and the
\* connection_terminate of Close
WriteMessages(t) ==
    {operationMessage(opID(t), gqlStart, Request(QueryOf(t), NilMap, <<>>)),
     operationMessage(opID(t), gqlStop, NilPayload),
     operationMessage(<<>>, gqlConnectionTerminate, NilPayload)}

\* Conn.write up to the call of wc.Write: r is what MarshalJSON returned
WriteMarshalled(t, r) ==
    wr' = [wr EXCEPT ![t] = IF r.err # "nil" THEN Writer("failed", <<>>, <<>>)
                            ELSE Writer("writing", r.out, r.out)]

WriteCall(t) ==
    /\ wr[t].pc = "idle"
    /\ \E msg \in WriteMessages(t) : WriteMarshalled(t, MarshalJSON(msg))
    /\ UNCHANGED <<wire, varsCodec, varsDial, varsSys>>

\* wc.Write under way: the transport takes the next n bytes of the call of t
TransportTake(t, n) ==
    /\ wr[t].pc = "writing"
    /\ wire' = wire \o SubSeq(wr[t].rest, 1, n)
    /\ wr' = [wr EXCEPT ![t] = IF n = Len(wr[t].rest)
                               THEN Writer("written", wr[t].frame, <<>>)
                               ELSE Writer("writing", wr[t].frame,
                                           SubSeq(wr[t].rest, n + 1, Len(wr[t].rest)))]
    /\ UNCHANGED <<varsCodec, varsDial, varsSys>>

\* the transport takes all that is left of a call, or the first half of a
\* call it has taken nothing of yet
Takes(t) ==
    IF wr[t].rest = wr[t].frame
    THEN {Len(wr[t].rest), Len(wr[t].rest) \div 2}
    ELSE {Len(wr[t].rest)}

NextWire ==
    \/ \E t \in Callers : WriteCall(t)
    \/ \E t \in Callers : \E n \in Takes(t) : TransportTake(t, n)

SpecWire == Init /\ [][NextWire]_vars

\* the server handler alone, fed by a peer client that writes any of the
\* client-to-server envelopes in any order and leaves the replies unread
PeerRequest(id, p) == ServerFrame(operationMessage(id, gqlStart, Request(QueryOf(p), NilMap, <<>>)))
PeerStop(id) == ServerFrame(operationMessage(id, gqlStop, NilPayload))
PeerFrames ==
    {ServerFrame(operationMessage(<<>>, gqlConnectionInit, NilPayload)),
     ServerFrame(operationMessage(<<>>, gqlConnectionTerminate, NilPayload))}
    \cup {PeerRequest(id, p) : id \in OpIDs, p \in Callers}
    \cup {PeerStop(id) : id \in OpIDs}

PeerWrite(f) ==
    /\ wc = "open"
    /\ Len(c2s) < MaxQueue
    /\ Len(s2c) < MaxReplies
    /\ c2s' = Append(c2s, f)
    /\ UNCHANGED <<varsCodec, varsDial, varsWire, done, wc, closer, s2c, varsClient, varsServer, varsHist>>

NextServer ==
    \/ \E f \in PeerFrames : PeerWrite(f)
    \/ ServerStep
    \/ \E a \in active : \E o \in Outcomes(a.req) : Resolve(a, o)

SpecServer == Init /\ [][NextServer]_vars

\* the codec alone, on every message of Messages
\* the connection is untouched throughout
InitCodecOnly == InitCodec /\ InitSys /\ DialIdle /\ WireIdle

SpecCodec == InitCodecOnly /\ [][NextCodec]_vars

\* Dial alone, on every list of options of OptionLists
InitDialOnly == InitDial /\ InitSys /\ CodecIdle /\ WireIdle

SpecDial == InitDialOnly /\ [][DialCall]_vars

(***************************************************************************)
(* Properties of the codec, under SpecCodec.                               *)
(***************************************************************************)
\* C1 (round trip): for every valid envelope, with string fields that may
\* hold a double quote or a backslash, decoding the encoded bytes succeeds
\* and yields an envelope equal to the encoded one field for field.
RoundTrip ==
    (cPc = "decoded" /\ ValidEnvelope(cMsg)) => (cOut.err = "nil" /\ cOut.m = cMsg)

\* the keys of a scanned object, in the order of the bytes
Keys(node) == [i \in 1..Len(node.items) |-> node.items[i].key]

\* the keys the envelope m is to be written with
ExpectedKeys(m) ==
    (IF m.ID # <<>> THEN <<KeyID>> ELSE <<>>)
        \o <<KeyType>>
        \o (IF m.Payload.kind # "nil" THEN <<KeyPayload>> ELSE <<>>)

\* doc, the scanned bytes of m, is an object with exactly the keys of m in order
ShapeOf(m, doc) == doc.ok => (doc.node.k = "object" /\ Keys(doc.node) = ExpectedKeys(m))

\* C10 (wire shape): whenever the encoded bytes are a JSON document, it is an
\* object whose keys are, in this order, id (if and only if the id is not
\* empty), type (always) and payload (if and only if a payload is present).
WireShape == cPc # "input" => ShapeOf(cMsg, ParseDocument(cBytes))

\* C11 (unknown type is a decode failure): decoding an envelope whose type
\* is none of the ten known tags, an empty type included, returns an error,
\* with or without a payload.
UnknownTypeFails ==
    (cPc = "decoded" /\ cMsg.Type \notin KnownTypes) => cOut.err # "nil"

\* a string with nothing in it that JSON escapes
Plain(str) == \A i \in 1..Len(str) : str[i] \notin {Q, BS}

\* an envelope whose strings are all plain
PlainStrings(m) ==
    /\ Plain(m.ID)
    /\ Plain(m.Payload.Query)
    /\ Plain(m.Payload.OperationName)
    /\ Plain(m.Payload.Msg)
    /\ \A k \in DOMAIN m.Payload.Variables.m : Plain(m.Payload.Variables.m[k].s)

\* a well-formed envelope whose strings are all plain
PlainEnvelope(m) == ValidEnvelope(m) /\ PlainStrings(m)

\* the keys of the object that is the value of payload in the scanned object doc
PayloadKeys(doc) ==
    IF doc.ok /\ doc.node.k = "object"
    THEN UNION {{doc.node.items[i].val.items[j].key : j \in 1..Len(doc.node.items[i].val.items)} :
                  i \in {j \in 1..Len(doc.node.items) :
                           /\ doc.node.items[j].key = KeyPayload
                           /\ doc.node.items[j].val.k = "object"}}
    ELSE {}

\* the keys of the payload object are those the payload p calls for
OptionalKeys(p, keys) ==
    /\ KeyVariables \in keys <=> (p.kind = "Request" /\ DOMAIN p.Variables.m # {})
    /\ KeyOperationName \in keys <=> (p.kind = "Request" /\ p.OperationName # <<>>)
    /\ KeyErrors \in keys <=> (p.kind = "Response" /\ p.Errors.s # <<>>)

\* C21 (optional payload fields): in the bytes of a well-formed envelope the
\* payload has the key variables exactly when the variables mapping is not
\* empty, operationName exactly when it is not empty, and errors exactly when
\* the errors sequence is not empty; a mapping or sequence that is present and
\* empty gives no key.
OptionalFields ==
    (cPc # "input" /\ PlainEnvelope(cMsg)) =>
        OptionalKeys(cMsg.Payload, PayloadKeys(ParseDocument(cBytes)))

\* C22 (no success with malformed output): for an envelope whose strings are
\* plain, well-formed or not, MarshalJSON returns an error or the bytes of one
\* JSON object: a failure within the payload is not returned as success.
EncodeSound ==
    (cPc # "input" /\ PlainStrings(cMsg)) =>
        \/ MarshalJSON(cMsg).err # "nil"
        \/ /\ ParseDocument(cBytes).ok
           /\ ParseDocument(cBytes).node.k = "object"

\* C23 (decoding depends only on the frame): when the bytes decode without
\* error both into a new envelope and into one that was in use, the two
\* envelopes are the same: no id and no payload is left over from before.
DecodeFresh ==
    (cPc = "redecoded" /\ cOut.err = "nil" /\ cReuse.err = "nil") => cReuse.m = cOut.m

(***************************************************************************)
(* Properties of concurrent writes, under SpecWire.                        *)
(***************************************************************************)
\* C15 (write serialization): once every task's call of Conn.write has
\* returned, the transport holds the envelopes whole, one after the other in
\* some order of the tasks: the bytes of two envelopes are not interleaved.
WritesSerialized ==
    (\A t \in Callers : wr[t].pc = "written") =>
        \E order \in [1..NumCallers -> Callers] :
            /\ \A t \in Callers : \E i \in 1..NumCallers : order[i] = t
            /\ wire = Flatten([i \in 1..NumCallers |-> wr[order[i]].frame])

(***************************************************************************)
(* Properties of Dial, under SpecDial.                                     *)
(***************************************************************************)
\* the WithCompression options of a list, in order
CompressionOpts(opts) == SelectSeq(opts, LAMBDA o : o.opt = "compression")

\* C16 (default compression): a Dial without a WithCompression option hands
\* CompressionDisabled to the transport, and with WithCompression options it
\* hands over the mode of the last one.
DefaultCompression ==
    dPc = "dialed" =>
        LET given == CompressionOpts(dOpts)
        IN IF given = <<>>
           THEN dOut.CompressionMode = CompressionDisabled
           ELSE dOut.CompressionMode = given[Len(given)].mode

(***************************************************************************)
(* Properties of the client multiplexer, under Spec.                       *)
(***************************************************************************)
\* the peer wrote no rogue frame, no context is cancelled and no resolver
\* error text holds a double quote
Regular ==
    /\ ~rogue
    /\ \A p \in Callers : sub[p].ctx = "background"
    /\ \A id \in OpIDs : produced[id].msg # <<Q>>

\* the call of p returned what the server produced for the operation of p
OwnOutcome(p) ==
    LET o == produced[sub[p].id]
    IN \/ /\ o.kind = "ok"
          /\ sub[p].err = NoErr
          /\ sub[p].resp = o.resp
          /\ sub[p].resp.Data = DataFor(QueryOf(p))
       \/ /\ o.kind = "error"
          /\ sub[p].err = ErrServer(o.msg)
          /\ sub[p].resp = NilPayload

\* C2 (correlation): a call that returns a response returns the response
\* the server produced for its own operation id, which is the data of its
\* own distinct request, in every order of the responses; with a regular
\* peer every call that returns after its start was sent returns exactly
\* the outcome produced for its id.
Correlation ==
    \A p \in Callers :
        (sub[p].pc = "done" /\ sub[p].id # <<>>) =>
            /\ sub[p].err = NoErr => OwnOutcome(p)
            /\ Regular => OwnOutcome(p)

\* the operation submitted second has returned its own response while the
\* one submitted first still waits
CorrelationWitness ==
    \E p, q \in Callers :
        /\ sub[p].id = opID(2) /\ sub[p].pc = "done" /\ sub[p].err = NoErr
        /\ sub[p].resp.Data = DataFor(QueryOf(p))
        /\ sub[q].id = opID(1) /\ sub[q].pc = "waiting" /\ ~waiters[opID(1)].full

\* p was pending when the connection faulted, or called Submit after it
Affected(p) == hist[p] \in {"pending", "later"}

\* a call of p that has returned has returned err and no response
FailedWith(p, err) == sub[p].pc = "done" => (sub[p].err = err /\ sub[p].resp = NilPayload)

\* the fatal error has reached p, if p has not returned: a call waiting for
\* Ready was pending at the fault, and the slot of a call waiting for its
\* result is full, with the fatal error if it was pending at the fault
Delivered(p) ==
    /\ sub[p].pc = "awaitReady" => hist[p] = "pending"
    /\ sub[p].pc = "waiting" =>
          /\ waiters[sub[p].id].full
          /\ hist[p] = "pending" =>
                (waiters[sub[p].id].err = fatal /\ waiters[sub[p].id].resp = NilPayload)

\* C4 (unexpected message): once the reader has received a data envelope
\* whose id has no registered waiter (an empty id and one in place of
\* connection_ack included), the connection is faulted with
\* UnexpectedMessage, and every Submit pending then or started later fails
\* with UnexpectedMessage.
OrphanFaults ==
    sawOrphan =>
        /\ cstate = "Faulted"
        /\ fatal = ErrUnexpectedMessage
        /\ \A p \in Callers : Affected(p) => FailedWith(p, ErrUnexpectedMessage)
        /\ \A p \in Callers : Delivered(p)

\* an orphan was read with one Submit pending, and another was called later
OrphanWitness ==
    /\ sawOrphan
    /\ rogue
    /\ \E p, q \in Callers :
          /\ hist[p] = "pending" /\ sub[p].pc = "done" /\ sub[p].err = ErrUnexpectedMessage
          /\ sub[p].id # <<>>
          /\ hist[q] = "later" /\ sub[q].pc = "done" /\ sub[q].err = ErrUnexpectedMessage

\* C5 (malformed frame): once a frame that is not well-formed JSON, or whose
\* payload does not match its type, was delivered to the client, in place
\* of connection_ack or later, the connection is faulted with a decoding
\* error (syntax or type mismatch), every Submit outstanding then fails
\* with that error, and the reader has stopped and read nothing since.
MalformedFaults ==
    sawMalformed =>
        /\ cstate = "Faulted"
        /\ fatal.kind = "Decode"
        /\ fatal.cause \in {"syntax", "type"}
        /\ reader = "stopped"
        /\ ~lateReads
        /\ \A p \in Callers : hist[p] = "pending" => FailedWith(p, fatal)
        /\ \A p \in Callers : Delivered(p)

\* a malformed frame was read after the handshake with an operation in
\* flight, and the frames behind it stay unread
MalformedWitness ==
    /\ sawMalformed
    /\ \E p \in Callers :
          /\ hist[p] = "pending" /\ sub[p].pc = "done" /\ sub[p].id # <<>>
          /\ sub[p].err.kind = "Decode"
    /\ s2c # <<>>

\* C6 (resolver failure is operation-scoped): with no rogue frame and no
\* cancelled context, a Submit that has returned and whose resolver
\* returned an error has returned a ServerError with the resolver's error
\* text, its id is released and the connection is not faulted.
ServerErrorScoped ==
    \A p \in Callers :
        (/\ sub[p].pc = "done" /\ sub[p].id # <<>>
         /\ produced[sub[p].id].kind = "error"
         /\ ~rogue
         /\ \A q \in Callers : sub[q].ctx = "background") =>
            /\ sub[p].err = ErrServer(produced[sub[p].id].msg)
            /\ ~waiters[sub[p].id].reg
            /\ cstate # "Faulted"

\* C7 (cancellation is isolated): with no rogue frame and no resolver error
\* text that holds a double quote, once a Submit has returned Canceled the
\* connection is not faulted and no other call has failed with a fatal error.
CancelIsolated ==
    \A p \in Callers :
        (/\ sub[p].pc = "done" /\ sub[p].err = ErrCanceled
         /\ ~rogue
         /\ \A id \in OpIDs : produced[id].msg # <<Q>>) =>
            /\ cstate # "Faulted"
            /\ \A q \in Callers \ {p} :
                  sub[q].err.kind \notin {"UnexpectedMessage", "Decode", "IO", "ConnectionError"}

Starts(p) == sub[p].pc = "idle" /\ sub'[p].pc # "idle"

ConnClosed == wc # "open" \/ \E c \in Closers : closer[c] = "returned"

\* the Submit of p is pending on a connection that has not faulted
InFlight(p) == Pending(p) /\ cstate # "Faulted"

\* the Submit of p returned a connection error and no response (or Canceled,
\* if its context ended first)
FailedByClose(p) ==
    /\ sub[p].pc = "done"
    /\ sub[p].resp = NilPayload
    /\ \/ sub[p].err.kind = "IO"
       \/ sub[p].ctx = "cancel" /\ sub[p].err = ErrCanceled

\* C3 (fatal broadcast on close): if the connection is closed, by the peer
\* or by a local Close, while Submit calls are pending, every one of them
\* eventually returns a connection error and no response.
FatalBroadcast == \A p \in Callers : (InFlight(p) /\ ConnClosed) ~> FailedByClose(p)

\* a local Close returned with every caller's operation in flight, and every
\* call has returned the connection error
FatalBroadcastWitness ==
    /\ \E c \in Closers : closer[c] = "returned"
    /\ \A p \in Callers :
          /\ hist[p] = "pending" /\ sub[p].id # <<>>
          /\ sub[p].pc = "done" /\ sub[p].err.kind = "IO" /\ sub[p].resp = NilPayload

\* C8 (idempotent close): no call of Close panics, the second included.
CloseIdempotent == \A c \in Closers : closer[c] # "panicked"

\* C9 (best-effort terminate on close): a call of Close that has returned,
\* with or without an error of the terminate write, has closed the websocket.
CloseReleasesTransport ==
    \A c \in Closers : closer[c] \in {"returned", "returnedErr"} => wc = "closed"

\* a Submit that has returned an IOError, and nothing else
ReturnedIOError(p) ==
    /\ sub[p].pc = "done"
    /\ sub[p].err.kind = "IO"
    /\ sub[p].err.cause # "nil"
    /\ sub[p].resp = NilPayload

Sent(f) == c2s' = Append(c2s, f)
InitFrame == MarshalJSON(operationMessage(<<>>, gqlConnectionInit, NilPayload)).out
StartFrames == {PeerRequest(id, p) : id \in OpIDs, p \in Callers}

Owner(id) == {p \in Callers : sub[p].pc = "waiting" /\ sub[p].id = id}

AckFrame == ServerFrame(operationMessage(<<>>, gqlConnectionAck, NilPayload))
DataFrame(a) == ServerFrame(operationMessage(a.id, gqlData, Response(DataFor(a.req.Query), NilSlice)))
CompleteFrame(a) == ServerFrame(operationMessage(a.id, gqlComplete, NilPayload))
ErrorFrame(id, msg) == ServerFrame(operationMessage(id, gqlError, ServerError(msg)))

\* the resolution a ends in this step with its one terminal outcome
Succeeds(a) == s2c' = s2c \o <<DataFrame(a), CompleteFrame(a)>>
Fails(a) == \E msg \in ErrTexts : s2c' = Append(s2c, ErrorFrame(a.id, msg))

\* the resolution a is cancelled in this step by the stop{id} the server reads
Stopped(a) ==
    /\ c2s # <<>>
    /\ Head(c2s) = PeerStop(a.id)
    /\ c2s' = Tail(c2s)
    /\ s2c' = s2c

\* C14 (server terminal response): while the connection is served, a
\* resolution leaves the active set in a step that sends data{id} and then
\* complete{id}, or a single error{id}, or, when stop{id} cancels it, nothing;
\* one resolution ends per step, and a step in which none ends sends no data,
\* complete or resolver error: only connection_ack or the error for a
\* duplicate start.
ServerTerminal ==
    [][srv' # "Closed" =>
         /\ \A a \in active \ active' : Succeeds(a) \/ Fails(a) \/ Stopped(a)
         /\ \A a, b \in active \ active' : a = b
         /\ (active \subseteq active' /\ s2c' # s2c) =>
               \/ s2c' = Append(s2c, AckFrame)
               \/ \E a \in active : s2c' = Append(s2c, ErrorFrame(a.id, DuplicateMsg))]_vars

\* all three outcomes have happened: a success, a resolver error, and a
\* resolution cancelled before its resolver returned
ServerTerminalWitness ==
    /\ \E i \in 1..(Len(s2c) - 1), a \in {[id |-> id, req |-> Request(QueryOf(p), NilMap, <<>>)] : id \in OpIDs, p \in Callers} :
          s2c[i] = DataFrame(a) /\ s2c[i + 1] = CompleteFrame(a)
    /\ \E i \in 1..Len(s2c), id \in OpIDs, msg \in ErrTexts : s2c[i] = ErrorFrame(id, msg)
    /\ \E id \in OpIDs : produced[id] = Cancelled

\* the server reads start{id} in this step
ReadsStart(id) ==
    /\ srv = "Serving"
    /\ c2s # <<>>
    /\ c2s' = Tail(c2s)
    /\ \E p \in Callers : Head(c2s) = PeerRequest(id, p)

\* C20 (duplicate start): no two resolutions of one id are active; a
\* start{id} read while a resolution of id is active is answered with
\* error{id, ServerError} and leaves the active set as it is; a start{id} read
\* while none is active starts one and sends nothing.
DuplicateStartRejected ==
    /\ [](\A a, b \in active : a.id = b.id => a = b)
    /\ [][\A id \in OpIDs :
            ReadsStart(id) =>
                IF \E a \in active : a.id = id
                THEN /\ active' = active
                     /\ s2c' = Append(s2c, ErrorFrame(id, DuplicateMsg))
                ELSE /\ \E a \in active' : a.id = id /\ active' = active \cup {a}
                     /\ s2c' = s2c]_vars

\* a duplicate start was rejected while its id was active, and that id was
\* used again after its resolution ended
DuplicateStartWitness ==
    \E id \in OpIDs :
        /\ \E i \in 1..Len(s2c) : s2c[i] = ErrorFrame(id, DuplicateMsg)
        /\ produced[id] # NoOutcome
        /\ \E a \in active : a.id = id

====
